---- MODULE Spec2Model ----
(***************************************************************************)
(* A model of app.py, the Bedrock contract expiration analyzer: one        *)
(* Streamlit script that is re-executed from its first line on every user  *)
(* interaction.  The model covers read_uploaded_file (column validation,   *)
(* renaming, date normalization), generate_llm_prompt (the two clock       *)
(* reads), analyze_contracts_with_bedrock (the cleanup of the classifier   *)
(* text, json.loads, the exception handler) and the module-level page      *)
(* flow that renders the outcome.                                          *)
(*                                                                         *)
(* Texts are sequences of tokens, dates are day counts that are formatted  *)
(* to <<year, month, day>> by the civil-calendar algorithm, and JSON       *)
(* values are records built by a recursive-descent parser over the tokens. *)
(***************************************************************************)
EXTENDS Integers, Sequences, FiniteSets, TLC

VARIABLES
    pc,              \* where the modelled run stands
    uploaded_file,   \* the st.file_uploader widget's value (None or a sheet)
    page,            \* the latest script run: its raw_df, the elements it
                     \* displayed (screen), the payload it sent to the
                     \* classifier (sent) and analyze_contracts_with_bedrock's
                     \* outcome
    response,        \* what client.converse does in the run the button starts
    uploads,         \* how many files the session has received so far
    clock,           \* the wall clock: [day, tick]
    today,           \* generate_llm_prompt's local `today`
    alert_end_date   \* generate_llm_prompt's local `alert_end_date`

vars == <<pc, uploaded_file, page, response, uploads, clock, today, alert_end_date>>

\* Python's None (and pandas' missing value where a frame is expected).
None == [none |-> TRUE]

(***************************************************************************)
(* Calendar dates.  A pandas Timestamp / datetime is a day count from      *)
(* 1970-01-01 (plus a time of day); strftime('%Y-%m-%d') turns the day     *)
(* count into year, month and day.                                         *)
(***************************************************************************)
IsLeap(y) == (y % 4 = 0 /\ y % 100 # 0) \/ y % 400 = 0

DaysInMonth(y, m) ==
    IF m = 2 THEN (IF IsLeap(y) THEN 29 ELSE 28)
    ELSE IF m \in {4, 6, 9, 11} THEN 30 ELSE 31

\* The day count of the calendar date y-m-d (a string parse builds it).
DaysFromShifted(yy, mp, d) ==
    (yy \div 400) * 146097
    + (yy - (yy \div 400) * 400) * 365
    + (yy - (yy \div 400) * 400) \div 4
    - (yy - (yy \div 400) * 400) \div 100
    + (153 * mp + 2) \div 5 + d - 1
    - 719468

DaysFromCivil(y, m, d) ==
    DaysFromShifted(IF m <= 2 THEN y - 1 ELSE y, IF m > 2 THEN m - 3 ELSE m + 9, d)

\* strftime('%Y-%m-%d') of a day count: the text YYYY-MM-DD as <<Y, M, D>>.
\* The steps of the civil-calendar conversion, each handing its result on.
CivilYMD(y, m, d) == <<y + (IF m <= 2 THEN 1 ELSE 0), m, d>>

CivilFromMp(era, yoe, doy, mp) ==
    CivilYMD(yoe + era * 400,
             IF mp < 10 THEN mp + 3 ELSE mp - 9,
             doy - (153 * mp + 2) \div 5 + 1)

CivilFromDoy(era, yoe, doy) == CivilFromMp(era, yoe, doy, (5 * doy + 2) \div 153)

CivilFromYoe(era, doe, yoe) ==
    CivilFromDoy(era, yoe, doe - (365 * yoe + yoe \div 4 - yoe \div 100))

CivilFromDoe(era, doe) ==
    CivilFromYoe(era, doe,
                 (doe - doe \div 1460 + doe \div 36524 - doe \div 146096) \div 365)

CivilFromShifted(z) == CivilFromDoe(z \div 146097, z - (z \div 146097) * 146097)

Strftime(days) == CivilFromShifted(days + 719468)

(***************************************************************************)
(* JSON texts and values.  A text is a sequence of tokens:                 *)
(*   "F" the fence marker ```      "J" the word json      "P" a prose word *)
(*   "W" whitespace                "[" "]" "{" "}" ","    punctuation      *)
(*   "K" an object key with its colon, "k":                                *)
(*   "1" a truthy literal (1, true, "x")   "0" a falsy one (0, null, "")   *)
(***************************************************************************)
NoValue == [t |-> "none", v |-> "", items |-> <<>>]

Fail == [ok |-> FALSE, val |-> NoValue, rest |-> <<>>]

Ok(v, rest) == [ok |-> TRUE, val |-> v, rest |-> rest]

Scalar(tok) == [t |-> "scalar", v |-> tok, items |-> <<>>]

Array(items) == [t |-> "array", v |-> "", items |-> items]

Object(items) == [t |-> "object", v |-> "", items |-> items]

EmptyList == Array(<<>>)

\* json's scanner as a pushdown automaton: the stack holds the containers
\* that are open, mode says what may come next.
ScanStart == [stack |-> <<>>, mode |-> "value", val |-> NoValue]

ScanFail == [stack |-> <<>>, mode |-> "fail", val |-> NoValue]

Frame(t) == [t |-> t, v |-> "", items |-> <<>>]

\* A value v is complete: it is the result, or an item of the open container.
Complete(st, stack, v) ==
    IF stack = <<>> THEN [stack |-> <<>>, mode |-> "done", val |-> v]
    ELSE LET top == stack[Len(stack)] IN
         [stack |-> [stack EXCEPT ![Len(stack)] =
                        [top EXCEPT !.items = Append(top.items, v)]],
          mode |-> "after", val |-> NoValue]

Pop(stack) == SubSeq(stack, 1, Len(stack) - 1)

ScanToken(st, tok) ==
    LET n   == Len(st.stack)
        top == IF n = 0 THEN Frame("none") ELSE st.stack[n]
        wantsValue == st.mode \in {"value", "value_or_close"}
    IN
    IF tok = "W" \/ st.mode = "fail" THEN st
    ELSE IF tok \in {"0", "1"} /\ wantsValue THEN Complete(st, st.stack, Scalar(tok))
    ELSE IF tok = "[" /\ wantsValue
         THEN [stack |-> Append(st.stack, Frame("array")), mode |-> "value_or_close",
               val |-> NoValue]
    ELSE IF tok = "{" /\ wantsValue
         THEN [stack |-> Append(st.stack, Frame("object")), mode |-> "key_or_close",
               val |-> NoValue]
    ELSE IF tok = "]" /\ st.mode \in {"value_or_close", "after"} /\ top.t = "array"
         THEN Complete(st, Pop(st.stack), Array(top.items))
    ELSE IF tok = "}" /\ st.mode \in {"key_or_close", "after"} /\ top.t = "object"
         THEN Complete(st, Pop(st.stack), Object(top.items))
    ELSE IF tok = "," /\ st.mode = "after"
         THEN [st EXCEPT !.mode = IF top.t = "array" THEN "value" ELSE "key"]
    ELSE IF tok = "K" /\ st.mode \in {"key", "key_or_close"}
         THEN [st EXCEPT !.mode = "value"]
    ELSE ScanFail

RECURSIVE Scan(_, _)
Scan(st, s) == IF s = <<>> THEN st ELSE Scan(ScanToken(st, Head(s)), Tail(s))

\* json.loads: one value, then nothing but whitespace; anything else raises.
JsonLoads(s) ==
    LET r == Scan(ScanStart, s) IN
    IF r.mode = "done" THEN Ok(r.val, <<>>) ELSE Fail

(***************************************************************************)
(* analyze_contracts_with_bedrock: the cleanup of the classifier text.     *)
(***************************************************************************)
RECURSIVE LStrip(_)
LStrip(s) == IF s # <<>> /\ Head(s) = "W" THEN LStrip(Tail(s)) ELSE s

RECURSIVE RStrip(_)
RStrip(s) ==
    IF s # <<>> /\ s[Len(s)] = "W" THEN RStrip(SubSeq(s, 1, Len(s) - 1)) ELSE s

\* str.strip()
Strip(s) == RStrip(LStrip(s))

\* str.find / str.rfind of a one-character string, as positions from 1;
\* 0 stands for Python's -1.
Find(s, tok) ==
    IF \E i \in 1..Len(s) : s[i] = tok
    THEN CHOOSE i \in 1..Len(s) : s[i] = tok /\ \A j \in 1..(i - 1) : s[j] # tok
    ELSE 0

RFind(s, tok) ==
    IF \E i \in 1..Len(s) : s[i] = tok
    THEN CHOOSE i \in 1..Len(s) : s[i] = tok /\ \A j \in (i + 1)..Len(s) : s[j] # tok
    ELSE 0

\* llm_output_text[start:end], the closing bracket left out.
SliceExclusive(s, start, end) == SubSeq(s, start, end - 1)

\* llm_output_text[start:end+1]; empty when end lies before start.
SliceInclusive(s, start, end) == SubSeq(s, start, end)

\* .replace("```json", "")
RECURSIVE ReplaceFenceJson(_)
ReplaceFenceJson(s) ==
    IF s = <<>> THEN <<>>
    ELSE IF Len(s) >= 2 /\ s[1] = "F" /\ s[2] = "J"
         THEN ReplaceFenceJson(SubSeq(s, 3, Len(s)))
         ELSE <<Head(s)>> \o ReplaceFenceJson(Tail(s))

\* .replace("```", "")
ReplaceFence(s) == SelectSeq(s, LAMBDA tok : tok # "F")

\* Lines 131-136, for a text that starts with the fence marker: the slice
\* from the first [ to the last ], or the markers removed.
Unfence(stripped, start, end) ==
    IF start # 0 /\ end # 0
    THEN SliceInclusive(stripped, start, end)
    ELSE ReplaceFence(ReplaceFenceJson(stripped))

StartsWithFence(stripped) == stripped # <<>> /\ Head(stripped) = "F"

CleanStripped(stripped) ==
    IF StartsWithFence(stripped)
    THEN Unfence(stripped, Find(stripped, "["), RFind(stripped, "]"))
    ELSE stripped

\* Lines 129-136.
CleanUp(text) == CleanStripped(Strip(text))

\* The initial value of llm_output_text (line 114).
Placeholder == <<"ERROR: Bedrock call failed before output could be received.">>

\* A handler written `except json.JSONDecodeError`.
CatchesJsonOnly(exc) == exc = "JSONDecodeError"

\* `except Exception`: the classes the handler of line 140 catches.
Catches(exc) == exc \in {"ClientError", "KeyError", "JSONDecodeError"}

\* df.to_json(orient='records'): one object per row, keyed by column label.
ToJson(df) ==
    [i \in 1..Len(df.rows) |->
        [l \in {df.cols[j] : j \in 1..Len(df.cols)} |->
            df.rows[i][CHOOSE j \in 1..Len(df.cols) : df.cols[j] = l]]]

NotSent == <<>>

\* What one call of analyze_contracts_with_bedrock does: the value returned,
\* the st.error and st.code it issued, the exception it let through (if any)
\* and the payload it sent.
Returns(v, payload) ==
    [returned |-> v, error |-> FALSE, code |-> None, escaped |-> "",
     called |-> payload # NotSent, sent |-> payload]

\* The except block of lines 140-143, entered with llm_output_text = text.
Handler(exc, text, payload) ==
    IF Catches(exc)
    THEN [returned |-> EmptyList, error |-> TRUE, code |-> text, escaped |-> "",
          called |-> TRUE, sent |-> payload]
    ELSE [returned |-> NoValue, error |-> FALSE, code |-> None, escaped |-> exc,
          called |-> TRUE, sent |-> payload]

\* The value json.loads returned is returned as it is (line 138).
ReturnParsed(v, payload) == Returns(v, payload)

\* Lines 138-143 with llm_output_text = cleaned.
LoadsOrHandle(cleaned, parsed, payload) ==
    IF parsed.ok THEN ReturnParsed(parsed.val, payload)
    ELSE Handler("JSONDecodeError", cleaned, payload)

ParseCleaned(cleaned, payload) == LoadsOrHandle(cleaned, JsonLoads(cleaned), payload)

\* Lines 116-143: the try block and its handler.
Converse(resp, payload) ==
    IF resp.kind = "raise" THEN Handler("ClientError", Placeholder, payload)
    ELSE IF resp.kind = "malformed" THEN Handler("KeyError", Placeholder, payload)
    ELSE ParseCleaned(CleanUp(resp.text), payload)

AnalyzeContracts(df, resp) ==
    IF df.rows = <<>> THEN Returns(EmptyList, NotSent)
    ELSE Converse(resp, ToJson(df))

(***************************************************************************)
(* read_uploaded_file.  A sheet is [readable, name, cols, rows]: cols the  *)
(* header row, rows the data rows, each a sequence of cells aligned with   *)
(* cols.  A cell is [k, a, b, c]:                                          *)
(*   k = "nan"   an empty cell                                             *)
(*   k = "num"   a number: a its whole part, b = 1 when it has a fraction  *)
(*   k = "text"  a string that reads as the date a-b-c (which may not      *)
(*               exist, such as 2025-02-30)                                *)
(*   k = "junk"  a string that is no date                                  *)
(*   k = "date"  a datetime: a its day count, b its second of the day      *)
(*   k = "str"   a YYYY-MM-DD string the normalization wrote, a-b-c        *)
(*   k = "val"   a value of another column                                 *)
(***************************************************************************)
ALERT_DAYS_THRESHOLD == 90

\* list(COLUMN_MAPPING.keys()), in the dict's order.
RequiredCols == <<"Customer Name", "Product", "Warranty Expiry", "Maintenance Expiry">>

COLUMN_MAPPING(h) ==
    CASE h = "Customer Name"      -> "company"
      [] h = "Product"            -> "name"
      [] h = "Warranty Expiry"    -> "expiry_date"
      [] h = "Maintenance Expiry" -> "service_expiry_date"
      [] OTHER                    -> h

date_cols == <<"expiry_date", "service_expiry_date">>

Cell(k, a, b, c) == [k |-> k, a |-> a, b |-> b, c |-> c]

NaN == Cell("nan", 0, 0, 0)

Range(s) == {s[i] : i \in 1..Len(s)}

\* The range of a datetime64[ns]: pd.Timestamp.min and pd.Timestamp.max.
TimestampMinDay == DaysFromCivil(1677, 9, 22)

TimestampMaxDay == DaysFromCivil(2262, 4, 11)

NaT == [nat |-> TRUE, days |-> 0]

InRange(days, lo, hi) ==
    IF days >= lo /\ days <= hi THEN [nat |-> FALSE, days |-> days] ELSE NaT

Timestamp(days) == InRange(days, TimestampMinDay, TimestampMaxDay)

\* A number read by pd.to_datetime counts nanoseconds from 1970-01-01: its
\* day is the number divided by 86400 * 10^9, rounded down.
NumericToDays(n) == (((n \div 1000) \div 1000) \div 1000) \div 86400

\* pd.to_datetime(cell, errors='coerce') on one cell.
CellDays(cell) ==
    CASE cell.k = "num"  -> NumericToDays(cell.a)
      [] cell.k = "text" -> DaysFromCivil(cell.a, cell.b, cell.c)
      [] OTHER           -> cell.a

Parseable(cell) ==
    CASE cell.k = "num"  -> TRUE
      [] cell.k = "text" -> cell.b \in 1..12 /\ cell.c \in 1..DaysInMonth(cell.a, cell.b)
      [] cell.k = "date" -> TRUE
      [] OTHER           -> FALSE

\* pd.to_datetime(..., errors='coerce'), taken cell by cell: what cannot be
\* read as a date, or lies outside the Timestamp range, becomes NaT.
ToDatetime(cell) == IF Parseable(cell) THEN Timestamp(CellDays(cell)) ELSE NaT

\* .dt.strftime('%Y-%m-%d') on one cell: NaT stays missing.
DateString(ymd) == Cell("str", ymd[1], ymd[2], ymd[3])

FormatCell(ts) == IF ts.nat THEN NaN ELSE DateString(Strftime(ts.days))

NormalizeCell(cell) == FormatCell(ToDatetime(cell))

\* The same list under a comparison that ignores case.
LowerCase(h) == IF h = "Customer Name" THEN "customer name" ELSE h

MissingColsAnyCase(cols) ==
    SelectSeq(RequiredCols, LAMBDA c : c \notin Range(cols) /\ LowerCase(c) \notin Range(cols))

\* [col for col in required_cols if col not in df.columns]
MissingCols(cols) == SelectSeq(RequiredCols, LAMBDA c : c \notin Range(cols))

\* df.rename(columns=COLUMN_MAPPING)
Rename(df) ==
    [cols |-> [j \in 1..Len(df.cols) |-> COLUMN_MAPPING(df.cols[j])], rows |-> df.rows]

\* The positions of the columns labelled col: df[col] is a Series when there
\* is one and a DataFrame when there are several.
Positions(df, col) == {j \in 1..Len(df.cols) : df.cols[j] = col}

\* df[col] = pd.to_datetime(df[col], errors='coerce').dt.strftime(...)
NormalizeAt(df, p) ==
    [cols |-> df.cols,
     rows |-> [i \in 1..Len(df.rows) |->
                 [j \in 1..Len(df.cols) |->
                     IF j = p THEN NormalizeCell(df.rows[i][j]) ELSE df.rows[i][j]]]]

NormalizeColumn(df, col) == NormalizeAt(df, CHOOSE j \in Positions(df, col) : TRUE)

\* Whether line 71 raises for col: pd.to_datetime of a DataFrame (several
\* columns share the label) raises ValueError whatever `errors` says.
NormalizeRaises(df, col) == Cardinality(Positions(df, col)) # 1

El(w, arg) == [w |-> w, arg |-> arg]

ReadResult(df, msgs) == [df |-> df, msgs |-> msgs]

\* The handler of lines 75-77.
ReadFailed == ReadResult(None, <<El("error_read", <<>>)>>)

\* Lines 69-73: the loop over date_cols, second and first iteration.
NormalizeSecond(df) ==
    IF NormalizeRaises(df, date_cols[2]) THEN ReadFailed
    ELSE ReadResult(NormalizeColumn(df, date_cols[2]), <<>>)

NormalizeFirst(df) ==
    IF NormalizeRaises(df, date_cols[1]) THEN ReadFailed
    ELSE NormalizeSecond(NormalizeColumn(df, date_cols[1]))

\* Lines 59-64, given the missing columns.
Validate(file, missing) ==
    IF missing # <<>>
    THEN ReadResult(None, <<El("error_missing", missing),
                            El("info_required", RequiredCols)>>)
    ELSE NormalizeFirst(Rename([cols |-> file.cols, rows |-> file.rows]))

\* The result of read_uploaded_file: the frame (or None) and what it displayed.
ReadUploadedFile(file) ==
    IF ~file.readable THEN ReadFailed ELSE Validate(file, MissingCols(file.cols))

(***************************************************************************)
(* The module-level page flow, lines 162-203: what one execution of the    *)
(* script displays for the uploaded file, the button and the classifier.   *)
(***************************************************************************)
\* Python truthiness of a parsed JSON value (`if expiring_contracts:`).
Truthy(v) ==
    CASE v.t = "scalar" -> v.v = "1"
      [] OTHER          -> v.items # <<>>

\* Whether pd.DataFrame(v) raises: a scalar, or a dict of scalars only.
DataFrameRaises(v) ==
    CASE v.t = "scalar" -> TRUE
      [] v.t = "object" -> \A i \in 1..Len(v.items) : v.items[i].t = "scalar"
      [] OTHER          -> FALSE

\* raw_df.rename(columns={...}) for the preview of line 169.
PreviewRename(h) ==
    CASE h = "expiry_date"         -> "Warranty Expiry (Primary)"
      [] h = "service_expiry_date" -> "Maintenance Expiry"
      [] OTHER                     -> h

Preview(df) ==
    [cols |-> [j \in 1..Len(df.cols) |-> PreviewRename(df.cols[j])], rows |-> df.rows]

NoOutcome == Returns(NoValue, NotSent)

Page(df, shown, payload, a) ==
    [raw_df |-> df, screen |-> shown, sent |-> payload, outcome |-> a]

\* Lines 178-203: the table, or the message that nothing expires.
Results(v) ==
    IF Truthy(v)
    THEN IF DataFrameRaises(v)
         THEN <<El("exception", <<"ValueError">>)>>
         ELSE <<El("table", <<v>>), El("success_count", <<Len(v.items)>>)>>
    ELSE <<El("info_none", <<>>)>>

\* Lines 175-203: the report section, shown after the analysis returned.
Report(a) == <<El("subheader_2", <<>>)>> \o Results(a.returned)

\* What analyze_contracts_with_bedrock itself displayed (lines 141-142).
Diagnostics(a) ==
    IF a.error THEN <<El("error_llm", <<>>), El("code", a.code)>> ELSE <<>>

\* Lines 171-203: the button's branch.
Analysis(a) ==
    IF a.escaped # "" THEN <<El("exception", <<a.escaped>>)>>
    ELSE Diagnostics(a) \o Report(a)

\* A frame kept from the previous run while there is one.
LoadFrameStale(file, previous) ==
    IF previous # None THEN ReadResult(previous, <<>>) ELSE ReadUploadedFile(file)

\* The frame of this run: raw_df = read_uploaded_file(uploaded_file), line 165.
LoadFrame(file, previous) == ReadUploadedFile(file)

NoResponse == [kind |-> "none", text |-> <<>>]

EmptyPage == Page(None, <<>>, NotSent, NoOutcome)

Analyzed(df, shown, a) == Page(df, shown \o Analysis(a), a.sent, a)

\* Lines 167-173: the preview, the button and, when it was pressed, the call.
WithFrame(df, shown, clicked, resp) ==
    IF ~clicked THEN Page(df, shown, NotSent, NoOutcome)
    ELSE Analyzed(df, shown, AnalyzeContracts(df, resp))

Previewed(df) ==
    <<El("subheader_1", <<>>), El("preview", <<Preview(df)>>), El("button", <<>>)>>

\* Lines 163-167, given read_uploaded_file's result r.
Loaded(file, clicked, resp, r) ==
    IF r.df = None
    THEN Page(None, <<El("success_upload", <<file.name>>)>> \o r.msgs, NotSent, NoOutcome)
    ELSE WithFrame(r.df, <<El("success_upload", <<file.name>>)>> \o Previewed(r.df),
                   clicked, resp)

\* One execution of the script: `clicked` is st.button's value in this run
\* and resp what client.converse does if it is called.
ScriptRun(file, clicked, resp, previous) ==
    IF file = None THEN EmptyPage
    ELSE Loaded(file, clicked, resp, LoadFrame(file, previous))

Shows(w) == \E i \in 1..Len(page.screen) : page.screen[i].w = w

(***************************************************************************)
(* Input sets.                                                             *)
(***************************************************************************)
MaxRows == 1

MaxCore == 3

MaxUploads == 3

MaxClockDays == 4

TicksPerDay == 3

\* Header names a sheet may carry: the required ones, a differently cased
\* one, an unrelated one, and one that already bears a canonical name.
HeaderUniverse ==
    <<"Customer Name", "Product", "Warranty Expiry", "Maintenance Expiry",
      "customer name", "Notes", "expiry_date">>

DateCells ==
    { NaN,
      Cell("num", 0, 0, 0), Cell("num", 2, 0, 0), Cell("num", 2, 1, 0),
      Cell("text", 2025, 3, 15), Cell("text", 2024, 2, 29),
      Cell("text", 2025, 2, 30), Cell("text", 2300, 1, 1),
      Cell("junk", 0, 0, 0),
      Cell("date", DaysFromCivil(2026, 1, 31), 45000, 0) }

Sheet(cols, w, m) ==
    [readable |-> TRUE, name |-> "assets.xlsx", cols |-> cols,
     rows |-> [i \in 1..Len(w) |->
                 [j \in 1..Len(cols) |->
                     CASE cols[j] = "Warranty Expiry"    -> w[i]
                       [] cols[j] = "Maintenance Expiry" -> m[i]
                       [] OTHER                          -> Cell("val", i, j, 0)]]]

Unreadable == [readable |-> FALSE, name |-> "broken.xlsx", cols |-> <<>>, rows |-> <<>>]

CellsFor(cols, h, cells) == IF h \in Range(cols) THEN cells ELSE {NaN}

AllColLists ==
    { SelectSeq(HeaderUniverse, LAMBDA h : h \in S) : S \in SUBSET Range(HeaderUniverse) }

\* f is a sheet of at most MaxRows rows under one of the header rows, its
\* date cells drawn from DateCells, or the unreadable file.
IsUploadFile(f) ==
    \/ f = Unreadable
    \/ \E cols \in AllColLists : \E n \in 0..MaxRows :
          \E w \in [1..n -> CellsFor(cols, "Warranty Expiry", DateCells)] :
             \E m \in [1..n -> CellsFor(cols, "Maintenance Expiry", DateCells)] :
                f = Sheet(cols, w, m)

\* How the classifier may wrap its answer, and the answers themselves.
Prefixes ==
    { <<>>, <<"W">>, <<"F">>, <<"F", "J", "W">>, <<"W", "F", "J">>,
      <<"P", "W">>, <<"P", "F", "J", "W">> }

Suffixes ==
    { <<>>, <<"W">>, <<"W", "F">>, <<"F", "W">>, <<"W", "P">>, <<"W", "F", "W", "P">> }

CoreTokens == {"[", "]", "{", "}", ",", "K", "1", "P"}

Cores == UNION { [1..n -> CoreTokens] : n \in 0..MaxCore }

Text(t) == [kind |-> "text", text |-> t]

\* r is a raising call, a response without text, or a wrapped answer.
IsParserResponse(r) ==
    \/ r = [kind |-> "raise", text |-> <<>>]
    \/ r = [kind |-> "malformed", text |-> <<>>]
    \/ \E pre \in Prefixes : \E core \in Cores : \E post \in Suffixes :
          r = Text(pre \o core \o post)

UploadResponses ==
    { [kind |-> "raise", text |-> <<>>], Text(<<"[", "{", "K", "1", "}", "]">>) }

SampleFile ==
    Sheet(RequiredCols, <<Cell("text", 2025, 3, 15)>>, <<Cell("junk", 0, 0, 0)>>)

(***************************************************************************)
(* The session: a widget event, then the script's execution for it.        *)
(***************************************************************************)
clockVars == <<clock, today, alert_end_date>>

NoClock == [day |-> 0, tick |-> 0]

Blank ==
    /\ page = EmptyPage
    /\ clock = NoClock
    /\ today = <<>>
    /\ alert_end_date = <<>>

\* st.file_uploader receives a file: the script is run again.
Upload(f) ==
    /\ pc = "idle"
    /\ uploads < MaxUploads
    /\ uploads' = uploads + 1
    /\ uploaded_file' = f
    /\ response' = NoResponse
    /\ pc' = "rerun"
    /\ UNCHANGED <<page, clockVars>>

\* The user removes the file from the uploader.
RemoveFile ==
    /\ pc = "idle"
    /\ uploaded_file # None
    /\ uploaded_file' = None
    /\ response' = NoResponse
    /\ pc' = "rerun"
    /\ UNCHANGED <<page, uploads, clockVars>>

\* The user presses the button of line 171; r is what client.converse will
\* do in the run this starts.
ClickAnalyze(r) ==
    /\ pc = "idle"
    /\ Shows("button")
    /\ response' = r
    /\ pc' = "rerun_click"
    /\ UNCHANGED <<uploaded_file, page, uploads, clockVars>>

\* The script runs from its first line to its last.
RunScript ==
    /\ pc \in {"rerun", "rerun_click"}
    /\ page' = ScriptRun(uploaded_file, pc = "rerun_click", response, page.raw_df)
    /\ pc' = "idle"
    /\ UNCHANGED <<uploaded_file, response, uploads, clockVars>>

\* Uploads: every upload file, read once and then analysed.
InitUpload ==
    /\ pc = "rerun"
    /\ IsUploadFile(uploaded_file)
    /\ response = NoResponse
    /\ uploads = 1
    /\ Blank

NextUpload ==
    \/ RunScript
    \/ \E r \in UploadResponses : ClickAnalyze(r)

SpecUpload == InitUpload /\ [][NextUpload]_vars

\* Analyses: the sample sheet is on the page and the button is pressed, for
\* every parser response.
InitParser ==
    /\ pc = "rerun_click"
    /\ uploaded_file = SampleFile
    /\ IsParserResponse(response)
    /\ page = ScriptRun(SampleFile, FALSE, NoResponse, None)
    /\ uploads = 1
    /\ clock = NoClock
    /\ today = <<>>
    /\ alert_end_date = <<>>

NextParser == RunScript

SpecParser == InitParser /\ [][NextParser]_vars

\* The session: uploads, removals and analyses in any order.
OtherFile ==
    Sheet(RequiredCols, <<Cell("text", 2024, 2, 29)>>, <<Cell("num", 2, 0, 0)>>)

SessionFiles ==
    { Unreadable, SampleFile, OtherFile,
      Sheet(RequiredCols, <<>>, <<>>),
      Sheet(<<"Customer Name", "Product", "Warranty Expiry">>, <<NaN>>, <<>>),
      Sheet(HeaderUniverse, <<NaN>>, <<NaN>>) }

SessionResponses ==
    { [kind |-> "raise", text |-> <<>>],
      [kind |-> "malformed", text |-> <<>>],
      Text(<<"[", "]">>),
      Text(<<"[", "{", "K", "1", "}", "]">>),
      Text(<<"F", "J", "W", "[", "{", "K", "1", "}", ",", "{", "K", "0", "}", "]", "W", "F">>),
      Text(<<"P", "W", "P">>),
      Text(<<"P", "W", "[", "1", "]">>),
      Text(<<"1">>),
      Text(<<"0">>),
      Text(<<"{", "K", "1", "}">>) }

Init ==
    /\ pc = "idle"
    /\ uploaded_file = None
    /\ response = NoResponse
    /\ uploads = 0
    /\ Blank

Next ==
    \/ \E f \in SessionFiles : Upload(f)
    \/ RemoveFile
    \/ \E r \in SessionResponses : ClickAnalyze(r)
    \/ RunScript

Spec == Init /\ [][Next]_vars

(***************************************************************************)
(* generate_llm_prompt, lines 83-84: the clock is read twice, and it runs  *)
(* on between the two reads.                                               *)
(***************************************************************************)
ClockStarts == {DaysFromCivil(2023, 12, 1), DaysFromCivil(2025, 12, 30)}

\* datetime.now()
Now == clock

\* dt + timedelta(days=n)
AddDays(dt, n) == [dt EXCEPT !.day = dt.day + n]

DateOf(dt) == Strftime(dt.day)

\* today = datetime.now().strftime('%Y-%m-%d')
PromptToday ==
    /\ pc = "prompt_today"
    /\ today' = DateOf(Now)
    /\ pc' = "prompt_end"
    /\ UNCHANGED <<uploaded_file, page, response, uploads, clock, alert_end_date>>

\* alert_end_date = (datetime.now() + timedelta(days=ALERT_DAYS_THRESHOLD)).strftime(...)
PromptEnd ==
    /\ pc = "prompt_end"
    /\ alert_end_date' = DateOf(AddDays(Now, ALERT_DAYS_THRESHOLD))
    /\ pc' = "prompt_built"
    /\ UNCHANGED <<uploaded_file, page, response, uploads, clock, today>>

\* The prompt is returned; the next report generation builds a new one.
PromptReturn ==
    /\ pc = "prompt_built"
    /\ pc' = "prompt_today"
    /\ today' = <<>>
    /\ alert_end_date' = <<>>
    /\ UNCHANGED <<uploaded_file, page, response, uploads, clock>>

\* Time passes, whatever the program is doing.
Tick ==
    /\ \E start \in ClockStarts : clock.day >= start /\ clock.day < start + MaxClockDays
    /\ clock' = IF clock.tick + 1 < TicksPerDay
                THEN [clock EXCEPT !.tick = clock.tick + 1]
                ELSE [day |-> clock.day + 1, tick |-> 0]
    /\ UNCHANGED <<pc, uploaded_file, page, response, uploads, today, alert_end_date>>

InitPrompt ==
    /\ pc = "prompt_today"
    /\ uploaded_file = SampleFile
    /\ page = ScriptRun(SampleFile, FALSE, NoResponse, None)
    /\ response = NoResponse
    /\ uploads = 1
    /\ clock \in {[day |-> d, tick |-> 0] : d \in ClockStarts}
    /\ today = <<>>
    /\ alert_end_date = <<>>

NextPrompt == PromptToday \/ PromptEnd \/ PromptReturn \/ Tick

SpecPrompt == InitPrompt /\ [][NextPrompt]_vars

(***************************************************************************)
(* Properties.                                                             *)
(***************************************************************************)
Analysed == pc = "idle" /\ page.outcome.called

Unparseable(resp) == resp.kind = "text" /\ ~JsonLoads(CleanUp(resp.text)).ok

\* C1: analyze_contracts_with_bedrock returns a value for every classifier
\* text and for a call that raises, and lets no exception through; when the
\* call raised or the cleaned text is no JSON, a processing error is reported
\* and the result is the empty list.
C1_ReturnsNeverRaises ==
    Analysed =>
        /\ page.outcome.escaped = ""
        /\ page.outcome.returned # NoValue
        /\ (response.kind = "raise" \/ Unparseable(response)) =>
              /\ page.outcome.error
              /\ Shows("error_llm")
              /\ page.outcome.returned = EmptyList

\* The text "sorry, no data" was answered with an error and the empty list.
C1_Witness ==
    /\ Analysed
    /\ response = Text(<<"P", "W", "P">>)
    /\ page.outcome.error
    /\ page.outcome.returned = EmptyList

\* A text that holds exactly one JSON array, with nothing but prose, fence
\* markers and whitespace before and after it.
WrapperTokens == {"W", "F", "J", "P"}

ArrayPart(text) == SubSeq(text, Find(text, "["), RFind(text, "]"))

HoldsOneArray(text) ==
    /\ Find(text, "[") # 0
    /\ RFind(text, "]") # 0
    /\ JsonLoads(ArrayPart(text)).ok
    /\ \A i \in 1..Len(text) :
          (i < Find(text, "[") \/ i > RFind(text, "]")) => text[i] \in WrapperTokens

TheArray(text) == JsonLoads(ArrayPart(text)).val

\* C2 as claimed: whenever the classifier text holds exactly one JSON array,
\* inside a fence or with prose around it, that array is returned.
C2_ArrayExtracted ==
    (Analysed /\ response.kind = "text" /\ HoldsOneArray(response.text)) =>
        page.outcome.returned = TheArray(response.text)

\* C2 as amended: the array is returned when the stripped text begins with
\* the fence marker or is the array alone; otherwise (prose, or a fence that
\* follows prose, around the array) a processing error is reported and the
\* empty list is returned.
C2_ArrayExtractedBehindFence ==
    (Analysed /\ response.kind = "text" /\ HoldsOneArray(response.text)) =>
        IF StartsWithFence(Strip(response.text))
           \/ Strip(response.text) = ArrayPart(response.text)
        THEN /\ page.outcome.returned = TheArray(response.text)
             /\ ~page.outcome.error
        ELSE /\ page.outcome.returned = EmptyList
             /\ page.outcome.error

\* ```json [1] ``` was answered with the array [1].
C2_Witness ==
    /\ Analysed
    /\ response = Text(<<"F", "J", "W", "[", "1", "]", "W", "F">>)
    /\ page.outcome.returned = Array(<<Scalar("1")>>)

\* C3: the result of analyze_contracts_with_bedrock is always an array; a
\* text that is valid JSON but no array yields an error and the empty list.
C3_ResultIsArray ==
    Analysed =>
        /\ page.outcome.returned.t = "array"
        /\ (response.kind = "text" /\ JsonLoads(CleanUp(response.text)).ok
            /\ JsonLoads(CleanUp(response.text)).val.t # "array") =>
               (page.outcome.error /\ page.outcome.returned = EmptyList)

\* C9: when parsing the classifier text fails, the diagnostic shown is the
\* text as it was received, before any cleanup.
C9_DiagnosticIsRawText ==
    (Analysed /\ response.kind = "text" /\ page.outcome.error) =>
        \E i \in 1..Len(page.screen) :
            page.screen[i].w = "code" /\ page.screen[i].arg = response.text

\* C5: when the classifier call raises, no report outcome is presented:
\* neither a table nor the message that no assets expire.
C5_NoReportAfterRaise ==
    (Analysed /\ response.kind = "raise") =>
        /\ Shows("error_llm")
        /\ ~Shows("table")
        /\ ~Shows("info_none")

AbsentRequired(file) == {c \in Range(RequiredCols) : c \notin Range(file.cols)}

\* C4: when a required column is absent (names compared exactly), the
\* missing list is exactly the absent required names, the full required
\* list is shown, nothing is renamed or normalized, no frame is returned
\* and the classifier cannot be invoked for that upload.
C4_MissingColumnsFailHard ==
    (/\ pc = "idle"
     /\ uploaded_file # None
     /\ uploaded_file.readable
     /\ AbsentRequired(uploaded_file) # {}) =>
        /\ page.raw_df = None
        /\ page.sent = NotSent
        /\ ~page.outcome.called
        /\ ~Shows("button")
        /\ ~Shows("preview")
        /\ ~ENABLED (\E r \in UploadResponses : ClickAnalyze(r))
        /\ \E i \in 1..Len(page.screen) :
              /\ page.screen[i].w = "error_missing"
              /\ Range(page.screen[i].arg) = AbsentRequired(uploaded_file)
              /\ Len(page.screen[i].arg) = Cardinality(AbsentRequired(uploaded_file))
        /\ \E i \in 1..Len(page.screen) :
              /\ page.screen[i].w = "info_required"
              /\ page.screen[i].arg = RequiredCols

\* A sheet whose "customer name" is written in lower case and whose
\* Maintenance Expiry is absent was rejected, naming both.
C4_Witness ==
    /\ pc = "idle"
    /\ uploaded_file # None
    /\ uploaded_file.cols = <<"Product", "Warranty Expiry", "customer name">>
    /\ \E i \in 1..Len(page.screen) :
          /\ page.screen[i].w = "error_missing"
          /\ page.screen[i].arg = <<"Customer Name", "Maintenance Expiry">>

PassesValidation(file) == file # None /\ file.readable /\ AbsentRequired(file) = {}

IsDateHeader(h) == h \in {"Warranty Expiry", "Maintenance Expiry"}

\* C6: for every sheet that passes column validation, each cell of the two
\* date fields ends as a YYYY-MM-DD string or as the missing value, the
\* batch is not aborted, and the other cells are as they were.
C6_PerCellNonFatal ==
    (pc = "idle" /\ PassesValidation(uploaded_file)) =>
        /\ page.raw_df # None
        /\ Len(page.raw_df.rows) = Len(uploaded_file.rows)
        /\ \A i \in 1..Len(uploaded_file.rows) : \A j \in 1..Len(uploaded_file.cols) :
              IF IsDateHeader(uploaded_file.cols[j])
              THEN page.raw_df.rows[i][j].k \in {"str", "nan"}
              ELSE page.raw_df.rows[i][j] = uploaded_file.rows[i][j]

ExcelEpochDay == DaysFromCivil(1899, 12, 30)

\* C7: a non-negative number v in a date field normalizes to 1899-12-30
\* plus floor(v) days.
C7_SerialFromExcelEpoch ==
    (pc = "idle" /\ PassesValidation(uploaded_file) /\ page.raw_df # None) =>
        \A i \in 1..Len(uploaded_file.rows) : \A j \in 1..Len(uploaded_file.cols) :
            (/\ IsDateHeader(uploaded_file.cols[j])
             /\ uploaded_file.rows[i][j].k = "num"
             /\ uploaded_file.rows[i][j].a >= 0) =>
                page.raw_df.rows[i][j]
                    = DateString(Strftime(ExcelEpochDay + uploaded_file.rows[i][j].a))

\* C8: the end date written into the prompt is exactly ALERT_DAYS_THRESHOLD
\* days after the `today` written into the same prompt.
C8_WindowIsThresholdDays ==
    pc = "prompt_built" =>
        DaysFromCivil(alert_end_date[1], alert_end_date[2], alert_end_date[3])
            = DaysFromCivil(today[1], today[2], today[3]) + ALERT_DAYS_THRESHOLD

\* C10: after any sequence of uploads and analyses, what the page holds is
\* what one run of the script yields for the file now in the uploader and
\* the classifier's answer to this request: the frame is read from that
\* file, the payload sent is that frame's rows, and nothing of an earlier
\* upload or analysis is on the page.
C10_NoResidualState ==
    pc = "idle" =>
        /\ page = ScriptRun(uploaded_file, response # NoResponse, response, None)
        /\ uploaded_file = None => (page.raw_df = None /\ page.screen = <<>>)
        /\ page.outcome.called =>
              /\ page.raw_df = ReadUploadedFile(uploaded_file).df
              /\ page.sent = ToJson(ReadUploadedFile(uploaded_file).df)
              /\ page.outcome = AnalyzeContracts(page.raw_df, response)

\* The third file of the session replaced an analysed one and was analysed
\* itself: its table is on the page.
C10_Witness ==
    /\ pc = "idle"
    /\ uploads = MaxUploads
    /\ uploaded_file = OtherFile
    /\ page.outcome.called
    /\ Shows("table")

====
